---- MODULE Spec2Model ----
(***************************************************************************)
(* Model of image-editor-mcp (src/image-editor-mcp/src/index.ts): the path *)
(* guard getSafeImagePath, and the three tool handlers adjust_brightness,  *)
(* crop_image and compress_image together with the file system they act    *)
(* on.  A path is a sequence of one-character strings, so that the string  *)
(* operations of the source (startsWith, extname, toLowerCase, template    *)
(* concatenation) are modelled character by character.                     *)
(***************************************************************************)
EXTENDS Integers, Sequences, FiniteSets, TLC

(***************************************************************************)
(* Bounds of the model.                                                    *)
(***************************************************************************)
\* number of tool invocations the client sends
MaxInv == 2
\* number of write calls the backend needs to put one image on disk
NumChunks == 2
\* number of path segments of a generated file name (one-invocation specification)
MaxSegs == 2

(***************************************************************************)
(* Strings.                                                                *)
(***************************************************************************)
Slash == "/"
Dot == "."
EmptyStr == << >>

\* String.prototype.startsWith
StartsWith(s, prefix) ==
    /\ Len(prefix) <= Len(s)
    /\ SubSeq(s, 1, Len(prefix)) = prefix

UpperLetters ==
    << "A", "B", "C", "D", "E", "F", "G", "H", "I", "J", "K", "L", "M",
       "N", "O", "P", "Q", "R", "S", "T", "U", "V", "W", "X", "Y", "Z" >>

LowerLetters ==
    << "a", "b", "c", "d", "e", "f", "g", "h", "i", "j", "k", "l", "m",
       "n", "o", "p", "q", "r", "s", "t", "u", "v", "w", "x", "y", "z" >>

\* toLowerCase of one character: every upper-case letter of the alphabet of
\* the model (ASCII) becomes its lower-case letter, anything else is kept
LowerChar(c) ==
    LET ks == { k \in 1..Len(UpperLetters) : UpperLetters[k] = c }
    IN  IF ks = {} THEN c ELSE LowerLetters[CHOOSE k \in ks : TRUE]

\* String.prototype.toLowerCase
ToLowerCase(s) == [k \in 1..Len(s) |-> LowerChar(s[k])]

(***************************************************************************)
(* path.resolve (POSIX): the right-most absolute argument starts the path, *)
(* then "." and empty segments are dropped and ".." removes the segment    *)
(* before it (and is ignored at the root).                                 *)
(***************************************************************************)
RECURSIVE SplitFrom(_, _, _)
\* the segments of s from position k on, cur being the segment under way
SplitFrom(s, k, cur) ==
    IF k > Len(s) THEN << cur >>
    ELSE IF s[k] = Slash THEN << cur >> \o SplitFrom(s, k + 1, EmptyStr)
    ELSE SplitFrom(s, k + 1, Append(cur, s[k]))

Split(s) == SplitFrom(s, 1, EmptyStr)

RECURSIVE NormalizeFrom(_, _, _)
NormalizeFrom(segs, k, acc) ==
    IF k > Len(segs) THEN acc
    ELSE IF segs[k] = EmptyStr \/ segs[k] = << Dot >>
         THEN NormalizeFrom(segs, k + 1, acc)
    ELSE IF segs[k] = << Dot, Dot >>
         THEN NormalizeFrom(segs, k + 1,
                            IF Len(acc) = 0 THEN acc
                            ELSE SubSeq(acc, 1, Len(acc) - 1))
    ELSE NormalizeFrom(segs, k + 1, Append(acc, segs[k]))

NormalizeSegs(segs) == NormalizeFrom(segs, 1, << >>)

RECURSIVE JoinFrom(_, _)
JoinFrom(segs, k) ==
    IF k > Len(segs) THEN EmptyStr
    ELSE << Slash >> \o segs[k] \o JoinFrom(segs, k + 1)

JoinAbs(segs) == IF Len(segs) = 0 THEN << Slash >> ELSE JoinFrom(segs, 1)

IsAbsolute(s) == Len(s) > 0 /\ s[1] = Slash

\* path.resolve(base, name), base being absolute
PathResolve(base, name) ==
    IF IsAbsolute(name) THEN JoinAbs(NormalizeSegs(Split(name)))
    ELSE JoinAbs(NormalizeSegs(Split(base \o << Slash >> \o name)))

(***************************************************************************)
(* path.extname (POSIX): the part of the last path component from its last *)
(* dot on; empty when the component has no dot, starts with its only dot   *)
(* or is "..".  Trailing slashes are not part of the component.            *)
(***************************************************************************)
RECURSIVE TrimSlashes(_)
TrimSlashes(s) ==
    IF Len(s) > 0 /\ s[Len(s)] = Slash THEN TrimSlashes(SubSeq(s, 1, Len(s) - 1))
    ELSE s

LastPart(s) ==
    LET segs == Split(TrimSlashes(s)) IN segs[Len(segs)]

LastDot(b) ==
    LET dots == {k \in 1..Len(b) : b[k] = Dot}
    IN  IF dots = {} THEN 0 ELSE CHOOSE k \in dots : \A j \in dots : j <= k

extname(p) ==
    LET b == LastPart(p)
        d == LastDot(b)
    IN  IF d = 0 \/ d = 1 \/ b = << Dot, Dot >> THEN EmptyStr
        ELSE SubSeq(b, d, Len(b))

(***************************************************************************)
(* The path guard.                                                         *)
(***************************************************************************)
\* imageDirectory = path.resolve(args[0]); the server is started on /r
imageDirectory == << "/", "r" >>

\* the null the guard returns; no path, since a path is made of single characters
Null == << "null" >>

getSafeImagePath(fileName) ==
    LET resolvedPath == PathResolve(imageDirectory, fileName)
    IN  IF ~ StartsWith(resolvedPath, imageDirectory) THEN Null
        ELSE resolvedPath

\* the path is imageDirectory itself or below it, by whole path segments
InsideRoot(p) ==
    \/ p = imageDirectory
    \/ StartsWith(p, imageDirectory \o << Slash >>)

(***************************************************************************)
(* File names the one-invocation specification draws from: up to MaxSegs   *)
(* segments, relative or absolute, with or without a trailing slash.       *)
(***************************************************************************)
Segments ==
    { << ".", "." >>, << "." >>, << "r" >>, << "r", "2" >>, << "a" >>,
      << "a", ".", "j", "p", "g" >>, << "b", ".", "G", "I", "F" >>,
      << "c", ".", "P", "N", "G" >>, << "d", ".", "W", "e", "b", "P" >>,
      << ".", "h" >>, EmptyStr }

RECURSIVE NamesOfLen(_)
NamesOfLen(n) ==
    IF n = 1 THEN Segments
    ELSE { a \o << Slash >> \o s : a \in NamesOfLen(n - 1), s \in Segments }

GenNames ==
    LET rel == UNION { NamesOfLen(n) : n \in 1..MaxSegs }
    IN  rel \cup { << Slash >> \o s : s \in rel }

(***************************************************************************)
(* Images and file contents.  The backend (sharp) is an external library:  *)
(* an image is the record of the operations that produced it and its size, *)
(* and a file holding an image is NumChunks chunks of that image, written  *)
(* one write call at a time.                                               *)
(***************************************************************************)
\* width and height of the images the directory starts with
ImgSize == 2

NoImage == [ops |-> << >>, w |-> 0, h |-> 0]

OrigImage(n) ==
    [ops |-> << [op |-> "orig", brightness |-> 0, left |-> 0, top |-> 0,
                 width |-> 0, height |-> 0, quality |-> n] >>,
     w |-> ImgSize, h |-> ImgSize]

\* what a hole left by a write past the end of a file reads as
Hole == [img |-> NoImage, k |-> 0]

FullContent(img) == [k \in 1..NumChunks |-> [img |-> img, k |-> k]]

\* the file decodes as an image: it is all the chunks of one image
IsComplete(c) ==
    /\ Len(c) = NumChunks
    /\ c[1].img # NoImage
    /\ c = FullContent(c[1].img)

\* write(2) of one chunk at chunk offset k
WriteAt(c, k, chunk) ==
    [j \in 1..(IF Len(c) > k THEN Len(c) ELSE k) |->
        IF j = k THEN chunk ELSE IF j <= Len(c) THEN c[j] ELSE Hole]

(***************************************************************************)
(* The file system: dir maps the path of each file to its inode, and       *)
(* data maps each inode to its content.  An open file descriptor refers to *)
(* an inode, not to a path.                                                *)
(***************************************************************************)
PathA == << "/", "r", "/", "a", ".", "j", "p", "g" >>
PathB == << "/", "r", "/", "b", ".", "G", "I", "F" >>
PathBTmp == PathB \o << ".", "t", "m", "p" >>
PathSibling == << "/", "r", "2" >>
PathX == << "/", "r", "2", "/", "x", ".", "p", "n", "g" >>

\* the directories; no handler creates or removes one
Dirs == { << "/" >>, imageDirectory, PathSibling }

\* the files the directory tree starts with, the k-th in inode k
InitPaths == << PathA, PathB, PathBTmp, PathX >>

NumInitFiles == Len(InitPaths)

Inv == 1..MaxInv

InitFiles == { InitPaths[k] : k \in 1..NumInitFiles }

InitDir == [p \in InitFiles |-> CHOOSE k \in 1..NumInitFiles : InitPaths[k] = p]

\* the inode the backend creates for invocation i when the temporary path is free
NewInode(i) == NumInitFiles + i

Inodes == 1..(NumInitFiles + MaxInv)

InitData ==
    [n \in Inodes |-> IF n <= NumInitFiles THEN FullContent(OrigImage(n)) ELSE << >>]

Absent == << [img |-> NoImage, k |-> 0 - 1] >>
Directory == << [img |-> NoImage, k |-> 0 - 2] >>

\* what a reader of path p gets
ContentAt(d, dt, p) ==
    IF p \in Dirs THEN Directory
    ELSE IF p \notin DOMAIN d THEN Absent
    ELSE dt[d[p]]

\* `${filePath}.tmp`
TempPath(filePath) == filePath \o << ".", "t", "m", "p" >>

(***************************************************************************)
(* Requests.                                                               *)
(***************************************************************************)
NameA == << "a", ".", "j", "p", "g" >>
NameB == << "b", ".", "G", "I", "F" >>
NameX == << ".", ".", "/", "r", "2", "/", "x", ".", "p", "n", "g" >>
NameEtc == << ".", ".", "/", "e", "t", "c", "/", "p", ".", "g", "i", "f" >>
NameRoot == << "." >>

FileNames == { NameA, NameB, NameX, NameEtc, NameRoot }

Req(tool, fileName, level, width, height, quality) ==
    [tool |-> tool, fileName |-> fileName, level |-> level, left |-> 0,
     top |-> 0, width |-> width, height |-> height, quality |-> quality]

Requests ==
    { Req("adjust_brightness", f, l, 0, 0, 0) :
        f \in FileNames, l \in {"brighter", "darker"} }
    \cup
    { Req("crop_image", f, "", wh[1], wh[2], 0) :
        f \in FileNames,
        wh \in { << 1, 1 >>, << 0, 1 >>, << 1, 0 - 1 >>, << 3, 1 >> } }
    \cup
    { Req("compress_image", f, "", 0, 0, q) : f \in FileNames, q \in {50, 101} }

NoReq == Req("", EmptyStr, "", 0, 0, 0)

\* the inputSchema of the three tools, which the server checks before it
\* calls the handler
QualityMin == 1
QualityMax == 100

\* the crop schema without .positive()
SchemaOkNoPositive(r) ==
    CASE r.tool = "adjust_brightness" -> r.level \in {"brighter", "darker"}
      [] r.tool = "crop_image" -> TRUE
      [] r.tool = "compress_image" ->
            r.quality >= QualityMin /\ r.quality <= QualityMax
      [] OTHER -> FALSE

SchemaOk(r) ==
    CASE r.tool = "adjust_brightness" -> r.level \in {"brighter", "darker"}
      [] r.tool = "crop_image" -> r.width > 0 /\ r.height > 0
      [] r.tool = "compress_image" ->
            r.quality >= QualityMin /\ r.quality <= QualityMax
      [] OTHER -> FALSE

(***************************************************************************)
(* Results: isError, the message and the value the message embeds.         *)
(***************************************************************************)
NoResult == [isError |-> FALSE, msg |-> "none", arg |-> EmptyStr]
UnsafeResult == [isError |-> TRUE, msg |-> "unsafe path", arg |-> EmptyStr]
InvalidParams == [isError |-> TRUE, msg |-> "invalid params", arg |-> EmptyStr]
UnsupportedResult(extension) ==
    [isError |-> TRUE, msg |-> "unsupported format", arg |-> extension]
ErrorResult(message) == [isError |-> TRUE, msg |-> "error", arg |-> << message >>]
OkResult(fileName) == [isError |-> FALSE, msg |-> "ok", arg |-> fileName]

(***************************************************************************)
(* The pipeline a handler builds, and what the backend makes of it.        *)
(***************************************************************************)
\* brightness factors, times ten
Brighter == 15
Darker == 7

NoPipeline ==
    [op |-> "none", brightness |-> 0, left |-> 0, top |-> 0, width |-> 0,
     height |-> 0, quality |-> 0]

Modulate(brightness) == [NoPipeline EXCEPT !.op = "modulate", !.brightness = brightness]
Extract(left, top, width, height) ==
    [NoPipeline EXCEPT !.op = "extract", !.left = left, !.top = top,
                       !.width = width, !.height = height]
Encode(format, quality) == [NoPipeline EXCEPT !.op = format, !.quality = quality]

\* the extract area lies within the image
ExtractOk(img, pl) ==
    /\ pl.left >= 0 /\ pl.top >= 0 /\ pl.width > 0 /\ pl.height > 0
    /\ pl.left + pl.width <= img.w
    /\ pl.top + pl.height <= img.h

Transform(img, pl) ==
    [ops |-> Append(img.ops, pl),
     w |-> IF pl.op = "extract" THEN pl.width ELSE img.w,
     h |-> IF pl.op = "extract" THEN pl.height ELSE img.h]

VARIABLES
    dir,        \* path -> inode of the file at that path
    data,       \* inode -> content
    pc,         \* invocation -> where it stands
    req,        \* invocation -> its request
    filePath,   \* invocation -> what getSafeImagePath returned
    pipeline,   \* invocation -> the operation handed to the backend
    out,        \* invocation -> the image its transform produced
    fd,         \* invocation -> the inode its backend writes to
    off,        \* invocation -> chunks written so far
    result,     \* invocation -> the result returned to the client
    fsOps,      \* invocation -> the file-system calls made for it, in order
    changed,    \* invocation -> initial files whose content its steps changed
    atRename,   \* invocation -> content of its target when its rename returned
    overlap     \* invocation -> the invocations under way when it arrived

vars == << dir, data, pc, req, filePath, pipeline, out, fd, off, result,
           fsOps, changed, atRename, overlap >>

Init ==
    /\ dir = InitDir
    /\ data = InitData
    /\ pc = [i \in Inv |-> "idle"]
    /\ req = [i \in Inv |-> NoReq]
    /\ filePath = [i \in Inv |-> Null]
    /\ pipeline = [i \in Inv |-> NoPipeline]
    /\ out = [i \in Inv |-> NoImage]
    /\ fd = [i \in Inv |-> 0]
    /\ off = [i \in Inv |-> 0]
    /\ result = [i \in Inv |-> NoResult]
    /\ fsOps = [i \in Inv |-> << >>]
    /\ changed = [i \in Inv |-> {}]
    /\ atRename = [i \in Inv |-> << >>]
    /\ overlap = [i \in Inv |-> {}]

\* the initial files whose content differs between two file systems
Differ(d1, dt1, d2, dt2) ==
    { p \in InitFiles : ContentAt(d1, dt1, p) # ContentAt(d2, dt2, p) }

(***************************************************************************)
(* The synchronous part of a handler, from the request to the await of     *)
(* toFile: what it returns at once, or the pipeline it hands the backend.  *)
(***************************************************************************)
\* [ret |-> result returned at once (NoResult if none), pl |-> pipeline]
adjust_brightness(r, path) ==
    IF path = Null THEN [ret |-> UnsafeResult, pl |-> NoPipeline]
    ELSE LET brightnessValue == IF r.level = "brighter" THEN Brighter ELSE Darker
         IN  [ret |-> NoResult, pl |-> Modulate(brightnessValue)]

\* crop_image without the test of the guard's answer
crop_imageNoGuard(r, path) ==
    [ret |-> NoResult, pl |-> Extract(r.left, r.top, r.width, r.height)]

crop_image(r, path) ==
    IF path = Null THEN [ret |-> UnsafeResult, pl |-> NoPipeline]
    ELSE [ret |-> NoResult, pl |-> Extract(r.left, r.top, r.width, r.height)]

\* compress_image whose chain of format tests has no final else
compress_imageNoElse(r, path) ==
    IF path = Null THEN [ret |-> UnsafeResult, pl |-> NoPipeline]
    ELSE LET extension == ToLowerCase(extname(r.fileName))
         IN  IF extension = << ".", "j", "p", "e", "g" >>
                \/ extension = << ".", "j", "p", "g" >>
             THEN [ret |-> NoResult, pl |-> Encode("jpeg", r.quality)]
             ELSE IF extension = << ".", "p", "n", "g" >>
             THEN [ret |-> NoResult, pl |-> Encode("png", r.quality)]
             ELSE IF extension = << ".", "w", "e", "b", "p" >>
             THEN [ret |-> NoResult, pl |-> Encode("webp", r.quality)]
             ELSE [ret |-> NoResult, pl |-> Encode("input", r.quality)]

compress_image(r, path) ==
    IF path = Null THEN [ret |-> UnsafeResult, pl |-> NoPipeline]
    ELSE LET extension == ToLowerCase(extname(r.fileName))
         IN  IF extension = << ".", "j", "p", "e", "g" >>
                \/ extension = << ".", "j", "p", "g" >>
             THEN [ret |-> NoResult, pl |-> Encode("jpeg", r.quality)]
             ELSE IF extension = << ".", "p", "n", "g" >>
             THEN [ret |-> NoResult, pl |-> Encode("png", r.quality)]
             ELSE IF extension = << ".", "w", "e", "b", "p" >>
             THEN [ret |-> NoResult, pl |-> Encode("webp", r.quality)]
             ELSE [ret |-> UnsupportedResult(extension), pl |-> NoPipeline]

Handler(r, path) ==
    CASE r.tool = "adjust_brightness" -> adjust_brightness(r, path)
      [] r.tool = "crop_image" -> crop_image(r, path)
      [] r.tool = "compress_image" -> compress_image(r, path)

\* The client sends request r as invocation i.  The server checks it against
\* the tool's inputSchema and calls the handler, which runs up to its await.
Invoke(i, r) ==
    /\ pc[i] = "idle"
    /\ \A j \in Inv : j < i => pc[j] # "idle"
    /\ req' = [req EXCEPT ![i] = r]
    /\ overlap' = [overlap EXCEPT ![i] = { j \in Inv : pc[j] \notin {"idle", "done"} }]
    /\ IF ~ SchemaOk(r)
       THEN /\ pc' = [pc EXCEPT ![i] = "done"]
            /\ result' = [result EXCEPT ![i] = InvalidParams]
            /\ UNCHANGED << filePath, pipeline >>
       ELSE LET path == getSafeImagePath(r.fileName)
                h == Handler(r, path)
            IN  /\ filePath' = [filePath EXCEPT ![i] = path]
                /\ pipeline' = [pipeline EXCEPT ![i] = h.pl]
                /\ result' = [result EXCEPT ![i] = h.ret]
                /\ pc' = [pc EXCEPT ![i] = IF h.ret = NoResult THEN "read" ELSE "done"]
    /\ UNCHANGED << dir, data, out, fd, off, fsOps, changed, atRename >>

(***************************************************************************)
(* toFile, run by the backend off the main thread: it opens and decodes    *)
(* the input, opens the output with O_CREAT|O_TRUNC, and writes the        *)
(* encoded image chunk by chunk.  A failure rejects the promise and the    *)
(* handler's catch returns the error; nothing else is done.                *)
(***************************************************************************)
Fail(i, message) ==
    /\ pc' = [pc EXCEPT ![i] = "done"]
    /\ result' = [result EXCEPT ![i] = ErrorResult(message)]

BackendRead(i) ==
    /\ pc[i] = "read"
    /\ fsOps' = [fsOps EXCEPT ![i] = Append(@, "read")]
    /\ LET c == ContentAt(dir, data, filePath[i])
       IN  IF c = Absent THEN Fail(i, "ENOENT") /\ UNCHANGED out
           ELSE IF c = Directory THEN Fail(i, "EISDIR") /\ UNCHANGED out
           ELSE IF ~ IsComplete(c) THEN Fail(i, "corrupt input") /\ UNCHANGED out
           ELSE IF pipeline[i].op = "extract" /\ ~ ExtractOk(c[1].img, pipeline[i])
                THEN Fail(i, "bad extract area") /\ UNCHANGED out
           ELSE /\ out' = [out EXCEPT ![i] = Transform(c[1].img, pipeline[i])]
                /\ pc' = [pc EXCEPT ![i] = "open"]
                /\ UNCHANGED result
    /\ UNCHANGED << dir, data, req, filePath, pipeline, fd, off, changed, atRename, overlap >>

BackendOpen(i) ==
    LET tempPath == TempPath(filePath[i]) IN
    /\ pc[i] = "open"
    /\ fsOps' = [fsOps EXCEPT ![i] = Append(@, "open")]
    /\ IF tempPath \in Dirs
       THEN /\ Fail(i, "EISDIR")
            /\ UNCHANGED << dir, data, fd, changed >>
       ELSE LET ino == IF tempPath \in DOMAIN dir THEN dir[tempPath] ELSE NewInode(i)
                d2 == IF tempPath \in DOMAIN dir THEN dir ELSE dir @@ (tempPath :> ino)
                dt2 == [data EXCEPT ![ino] = << >>]
            IN  /\ dir' = d2
                /\ data' = dt2
                /\ fd' = [fd EXCEPT ![i] = ino]
                /\ changed' = [changed EXCEPT ![i] = @ \cup Differ(dir, data, d2, dt2)]
                /\ pc' = [pc EXCEPT ![i] = "write"]
                /\ UNCHANGED result
    /\ UNCHANGED << req, filePath, pipeline, out, off, atRename, overlap >>

BackendWrite(i) ==
    /\ pc[i] = "write"
    /\ off[i] < NumChunks
    /\ LET k == off[i] + 1
           dt2 == [data EXCEPT ![fd[i]] = WriteAt(@, k, [img |-> out[i], k |-> k])]
       IN  /\ data' = dt2
           /\ off' = [off EXCEPT ![i] = k]
           /\ changed' = [changed EXCEPT ![i] = @ \cup Differ(dir, data, dir, dt2)]
           /\ pc' = [pc EXCEPT ![i] = IF k = NumChunks THEN "rename" ELSE "write"]
    /\ fsOps' = [fsOps EXCEPT ![i] = Append(@, "write")]
    /\ UNCHANGED << dir, req, filePath, pipeline, out, fd, result, atRename, overlap >>

\* a write fails (disk full): what was written stays where it is
BackendWriteFail(i) ==
    /\ pc[i] = "write"
    /\ off[i] < NumChunks
    /\ Fail(i, "ENOSPC")
    /\ fsOps' = [fsOps EXCEPT ![i] = Append(@, "write")]
    /\ UNCHANGED << dir, data, req, filePath, pipeline, out, fd, off, changed, atRename, overlap >>

(***************************************************************************)
(* The handler after its await: fs.renameSync(tempPath, filePath) and the  *)
(* success result, or the catch when renameSync throws.                    *)
(***************************************************************************)
RenameSync(i) ==
    LET tempPath == TempPath(filePath[i]) IN
    /\ pc[i] = "rename"
    /\ fsOps' = [fsOps EXCEPT ![i] = Append(@, "rename")]
    /\ IF tempPath \notin DOMAIN dir
       THEN /\ Fail(i, "ENOENT")
            /\ UNCHANGED << dir, changed, atRename >>
       ELSE LET d2 == [p \in (DOMAIN dir \ {tempPath}) \cup {filePath[i]} |->
                          IF p = filePath[i] THEN dir[tempPath] ELSE dir[p]]
            IN  /\ dir' = d2
                /\ changed' = [changed EXCEPT ![i] = @ \cup Differ(dir, data, d2, data)]
                /\ atRename' = [atRename EXCEPT ![i] = ContentAt(d2, data, filePath[i])]
                /\ result' = [result EXCEPT ![i] = OkResult(req[i].fileName)]
                /\ pc' = [pc EXCEPT ![i] = "done"]
    /\ UNCHANGED << data, req, filePath, pipeline, out, fd, off, overlap >>

Next ==
    \/ \E i \in Inv, r \in Requests : Invoke(i, r)
    \/ \E i \in Inv : BackendRead(i)
    \/ \E i \in Inv : BackendOpen(i)
    \/ \E i \in Inv : BackendWrite(i)
    \/ \E i \in Inv : BackendWriteFail(i)
    \/ \E i \in Inv : RenameSync(i)

Spec == Init /\ [][Next]_vars

(***************************************************************************)
(* One invocation on its own, over the generated file names.               *)
(***************************************************************************)
GenRequests ==
    { Req("adjust_brightness", f, l, 0, 0, 0) :
        f \in GenNames \cup FileNames, l \in {"brighter", "darker"} }
    \cup
    { Req("crop_image", f, "", wh[1], wh[2], 0) :
        f \in GenNames \cup FileNames,
        wh \in { << 1, 1 >>, << 0, 1 >>, << 1, 0 - 1 >>, << 3, 1 >> } }
    \cup
    { Req("compress_image", f, "", 0, 0, q) :
        f \in GenNames \cup FileNames, q \in {50, 101} }

OneNext ==
    \/ \E r \in GenRequests : Invoke(1, r)
    \/ BackendRead(1)
    \/ BackendOpen(1)
    \/ BackendWrite(1)
    \/ BackendWriteFail(1)
    \/ RenameSync(1)

OneSpec == Init /\ [][OneNext]_vars

(***************************************************************************)
(* The claims.                                                             *)
(***************************************************************************)
Started(i) == pc[i] # "idle"
Returned(i) == pc[i] = "done"
\* the handler of invocation i was called: the request passed the schema
Called(i) == Started(i) /\ SchemaOk(req[i])
\* the invocation failed at a step of the backend or at the rename
FailedAtStep(i) == Returned(i) /\ result[i].msg = "error"
\* the backend of invocation i wrote its whole output
TransformDone(i) == off[i] = NumChunks
Quiescent == \A j \in Inv : pc[j] \in {"idle", "done"}

Count(seq, x) == Cardinality({ k \in 1..Len(seq) : seq[k] = x })

SupportedExtensions ==
    { << ".", "j", "p", "g" >>, << ".", "j", "p", "e", "g" >>,
      << ".", "p", "n", "g" >>, << ".", "w", "e", "b", "p" >> }

LowerExt(i) == ToLowerCase(extname(req[i].fileName))

\* C1: a file name that resolves outside imageDirectory (neither the root
\* nor below it by whole segments) is rejected by getSafeImagePath.
C1_OutsideRejected ==
    \A i \in Inv :
        Called(i) /\ ~ InsideRoot(PathResolve(imageDirectory, req[i].fileName))
        => filePath[i] = Null

\* C2: when the guard rejects the file name, the handler (any of the three)
\* has returned the fixed unsafe-path error and no file-system call was made
\* for the invocation: no read, no open or write of a temporary file, no
\* rename, and no file changed.
C2_UnsafeNoFileSystem ==
    \A i \in Inv :
        Called(i) /\ filePath[i] = Null
        => /\ Returned(i)
           /\ result[i] = UnsafeResult
           /\ fsOps[i] = << >>
           /\ changed[i] = {}
           /\ pipeline[i] = NoPipeline

\* C2 witness: a crop_image call on a name outside the root has returned.
C2_Witness ==
    \E i \in Inv :
        /\ Returned(i) /\ Called(i) /\ filePath[i] = Null
        /\ req[i].tool = "crop_image"
        /\ ~ InsideRoot(PathResolve(imageDirectory, req[i].fileName))

\* C3: an invocation that fails at a step (backend read or transform, write
\* of the temporary file, rename) made one attempt, returns isError, and
\* none of its steps changed the content of its target file.
C3_FailureLeavesTarget ==
    \A i \in Inv :
        FailedAtStep(i)
        => /\ result[i].isError
           /\ Count(fsOps[i], "read") <= 1
           /\ Count(fsOps[i], "open") <= 1
           /\ Count(fsOps[i], "rename") <= 1
           /\ filePath[i] \notin changed[i]

\* C4: in every state, every file that is the target of an invocation holds
\* a complete image (the one before an edit or the whole output of one
\* transform), never a partly written or mixed one.
C4_TargetsComplete ==
    \A i \in Inv :
        Called(i) /\ filePath[i] \in InitFiles
        => IsComplete(ContentAt(dir, data, filePath[i]))

\* C5: when an invocation returns success, the content of its target at the
\* moment its rename returned is exactly the output of its own transform.
C5_SuccessHoldsOwnOutput ==
    \A i \in Inv :
        Returned(i) /\ result[i].msg = "ok"
        => atRename[i] = FullContent(out[i])

\* C6: when two invocations on the same file overlap and the transforms of
\* both succeed, neither returns an error.
C6_NoErrorOnOverlap ==
    \A i, j \in Inv :
        /\ j \in overlap[i]
        /\ Returned(i) /\ Returned(j)
        /\ filePath[i] # Null /\ filePath[i] = filePath[j]
        /\ TransformDone(i) /\ TransformDone(j)
        => ~ result[i].isError /\ ~ result[j].isError

\* C7: once an invocation has returned and none is running, no temporary
\* file it created remains.
C7_NoTempRemains ==
    \A i \in Inv :
        Returned(i) /\ Quiescent /\ filePath[i] # Null
        => LET tempPath == TempPath(filePath[i])
           IN  ~ (tempPath \in DOMAIN dir /\ dir[tempPath] = NewInode(i))

\* C8 as stated: compress_image on any file name with an unsupported
\* lower-cased extension returns the error naming that extension, with no
\* file-system call made and no file changed.
C8_Original ==
    \A i \in Inv :
        /\ Called(i) /\ req[i].tool = "compress_image"
        /\ LowerExt(i) \notin SupportedExtensions
        => /\ Returned(i)
           /\ result[i] = UnsupportedResult(LowerExt(i))
           /\ fsOps[i] = << >>
           /\ changed[i] = {}

\* C8 amended: compress_image on a file name that the path guard accepts and
\* whose lower-cased extension is unsupported returns the error naming that
\* extension, with no file-system call made and no file changed.
C8_UnsupportedRejected ==
    \A i \in Inv :
        /\ Called(i) /\ req[i].tool = "compress_image"
        /\ filePath[i] # Null
        /\ LowerExt(i) \notin SupportedExtensions
        => /\ Returned(i)
           /\ result[i] = UnsupportedResult(LowerExt(i))
           /\ result[i].isError
           /\ fsOps[i] = << >>
           /\ changed[i] = {}
           /\ pipeline[i] = NoPipeline

\* C8 witness: compress_image on b.GIF, inside the root, has returned.
C8_Witness ==
    \E i \in Inv :
        /\ Returned(i) /\ Called(i) /\ req[i].tool = "compress_image"
        /\ filePath[i] = PathB
        /\ LowerExt(i) = << ".", "g", "i", "f" >>

\* C9: a crop_image request with a width or height that is not positive is
\* rejected with no call of the backend, and the extract step never gets a
\* width or height that is not positive.
C9_CropDimensionsPositive ==
    \A i \in Inv :
        /\ pipeline[i].op = "extract"
           => pipeline[i].width > 0 /\ pipeline[i].height > 0
        /\ Started(i) /\ req[i].tool = "crop_image"
           /\ (req[i].width <= 0 \/ req[i].height <= 0)
           => /\ Returned(i)
              /\ result[i].isError
              /\ pipeline[i] = NoPipeline
              /\ fsOps[i] = << >>

\* C9 witness: a crop_image request with width 0 on an existing file has
\* been sent.
C9_Witness ==
    \E i \in Inv :
        /\ Started(i) /\ req[i].tool = "crop_image"
        /\ req[i].width = 0
        /\ PathResolve(imageDirectory, req[i].fileName) = PathA

\* C10: every path a handler writes or renames (the target and the
\* temporary path) lies inside imageDirectory, and the only file under
\* imageDirectory that existed before and whose content an invocation
\* changes is its own target.
C10_WritesConfined ==
    \A i \in Inv :
        /\ Count(fsOps[i], "open") > 0
           => InsideRoot(filePath[i]) /\ InsideRoot(TempPath(filePath[i]))
        /\ \A p \in changed[i] : InsideRoot(p) => p = filePath[i]
====
